---- MODULE Spec2Model ----
(***************************************************************************)
(* RTEQC-api (src/rteqc_api.py): a read-only HTTP view over the output     *)
(* tree of the RT-EQcorrscan pipeline.                                     *)
(*                                                                         *)
(* State: the output tree under BASEPATH (owned by the upstream pipeline), *)
(* and the request just served with its response and its log lines.  The   *)
(* service holds no state of its own between requests.  Every handler is   *)
(* one action; the pipeline's changes to the tree are the other actions.   *)
(* A response is delivered before the tree changes again, so that          *)
(* req/resp/log always describe a request served on the tree as it is in   *)
(* the same state.                                                         *)
(***************************************************************************)
EXTENDS Integers, Sequences, FiniteSets, TLC

VARIABLES baseExists, baseListable, entry, files, req, resp, log

vars == <<baseExists, baseListable, entry, files, req, resp, log>>

tree == <<baseExists, baseListable, entry, files>>

(***************************************************************************)
(* Bounds of the model.                                                    *)
(***************************************************************************)
\* Regular files that exist at once anywhere under BASEPATH.
MaxFiles == 2

(***************************************************************************)
(* Module constants of rteqc_api.py.                                       *)
(***************************************************************************)
BASEPATH == "/tmp/outputs/detections"

CATALOG_FILENAME(basepath, triggerID) ==
    basepath \o "/" \o triggerID \o "/" \o triggerID \o "/output_out/catalog.csv"

SOURCE_FILENAME(basepath, triggerID) ==
    basepath \o "/" \o triggerID \o "/" \o triggerID
             \o "/plotter_out/output_metrics_summary_file.csv"

\* A plausible slip in the template: the "_latest" suffix left out.
PLOT_FILENAME_NoLatest(basepath, triggerID, plot_type) ==
    basepath \o "/" \o triggerID \o "/" \o triggerID
             \o "/plotter_out/" \o plot_type \o ".png"

PLOT_FILENAME(basepath, triggerID, plot_type) ==
    basepath \o "/" \o triggerID \o "/" \o triggerID
             \o "/plotter_out/" \o plot_type \o "_latest.png"

HOST == "0.0.0.0"
PORT == "8000"

CATS(host, port, triggerID) ==
    "http://" \o host \o ":" \o port \o "/catalog/?triggerID=" \o triggerID

PLOTS(host, port, triggerID, plot_type) ==
    "http://" \o host \o ":" \o port \o "/plots/?triggerID=" \o triggerID
              \o "&plot_type=" \o plot_type

SOURCES(host, port, triggerID) ==
    "http://" \o host \o ":" \o port \o "/sources/?triggerID=" \o triggerID

KNOWN_PLOT_TYPES ==
    << "Scaled_Magnitude_Comparison",
       "Aftershock_extent_depth_map",
       "catalog_RT",
       "catalog_templates",
       "confidence_ellipsoid",
       "confidence_ellipsoid_vertical",
       "focal_sphere",
       "Geometry_with_time" >>

\* main(): uvicorn.run(app, host="0.0.0.0", port=8001)
UVICORN_HOST == "0.0.0.0"
UVICORN_PORT == 8001

(***************************************************************************)
(* Inputs: the names the pipeline may create under BASEPATH, the           *)
(* triggerID and plot_type query parameters a client may send.             *)
(***************************************************************************)
EntryNames == {"2014p051675", "empty_dir", ".hidden"}

TriggerIDInputs == EntryNames

PlotTypeInputs ==
    { KNOWN_PLOT_TYPES[i] : i \in 1..Len(KNOWN_PLOT_TYPES) }
    \cup {"", "Focal_Sphere", "GEOMETRY_WITH_TIME", "catalog", "not_a_plot"}

\* Plot stems the pipeline (or anyone else) may leave in plotter_out.
PlotTypesOnDisk == {"focal_sphere", "Focal_Sphere", ""}

(***************************************************************************)
(* Tables (pandas.DataFrame as read_csv(..., parse_dates=[1]) builds it):  *)
(* named columns in header order, one dtype per column, rows in file       *)
(* order.  A datetime64[ns] cell is a calendar second plus nanoseconds.    *)
(***************************************************************************)
IntegerTable ==
    [ columns |-> <<"id", "time", "magnitude">>,
      dtypes  |-> <<"integer", "datetime", "integer">>,
      rows    |-> << <<1, [second |-> "2014-01-01T00:00:00", ns |-> 0], 5>> >> ]

MicrosecondTable ==
    [ columns |-> <<"station", "origin_time", "event_id">>,
      dtypes  |-> <<"string", "datetime", "string">>,
      rows    |-> << <<"WEL",  [second |-> "2014-01-20T02:52:44", ns |-> 123456000], "b">>,
                     <<"SNZO", [second |-> "2014-01-20T02:52:45", ns |-> 250000000], "a">> >> ]

FileTables == {IntegerTable, MicrosecondTable}

\* What a .csv file may hold: a table, or bytes read_csv cannot parse.
Unparsable == [ garbage |-> TRUE ]

CsvContents == FileTables \cup {Unparsable}

IsUnparsable(content) == "garbage" \in DOMAIN content

\* The bytes of the image stored at path: one image per path.
PngBytes(path) == [ png |-> path ]

(***************************************************************************)
(* The output tree.  entry[n] is what BASEPATH/n is; files maps the path   *)
(* of every regular file below the entries to its content.  The pipeline   *)
(* writes its files at the places of its layout:                           *)
(*   {base}/{id}/{id}/output_out/catalog.csv                               *)
(*   {base}/{id}/{id}/plotter_out/output_metrics_summary_file.csv          *)
(*   {base}/{id}/{id}/plotter_out/{plot_type}_latest.png                   *)
(***************************************************************************)
EntryDir(n) == "/tmp/outputs/detections/" \o n

LayoutCatalog(n) == EntryDir(n) \o "/" \o n \o "/output_out/catalog.csv"

LayoutSources(n) ==
    EntryDir(n) \o "/" \o n \o "/plotter_out/output_metrics_summary_file.csv"

LayoutPlot(n, stem) ==
    EntryDir(n) \o "/" \o n \o "/plotter_out/" \o stem \o "_latest.png"

LayoutPaths(n) ==
    {LayoutCatalog(n), LayoutSources(n)} \cup {LayoutPlot(n, k) : k \in PlotTypesOnDisk}

NoFiles == [p \in {} |-> Unparsable]

\* Regular files in the tree, the entries that are regular files included.
FileCount == Cardinality(DOMAIN files) + Cardinality({n \in EntryNames : entry[n] = "file"})

WriteFile(path, content) ==
    [p \in DOMAIN files \cup {path} |-> IF p = path THEN content ELSE files[p]]

DropFiles(paths) == [p \in DOMAIN files \ paths |-> files[p]]

IsPrefix(pre, s) == Len(pre) <= Len(s) /\ SubSeq(s, 1, Len(pre)) = pre

\* os.path.isfile
isfile(path) ==
    \/ path \in DOMAIN files
    \/ \E n \in EntryNames : entry[n] = "file" /\ path = EntryDir(n)

\* os.path.basename: what follows the last "/".
RECURSIVE AfterLastSlash(_, _)
AfterLastSlash(p, i) ==
    IF i = 0 THEN p
    ELSE IF SubSeq(p, i, i) = "/" THEN SubSeq(p, i + 1, Len(p))
    ELSE AfterLastSlash(p, i - 1)

basename(p) == AfterLastSlash(p, Len(p))

\* Every order in which the operating system may list the names in S.
Orderings(S) ==
    { s \in [1..Cardinality(S) -> S] : \A i, j \in 1..Cardinality(S) : s[i] = s[j] => i = j }

\* The names os.scandir may yield for BASEPATH, in one of its orders.  On a
\* BASEPATH that is missing or may not be read os.scandir raises OSError,
\* which glob catches: it then has no name to match.
Listings ==
    IF baseExists /\ baseListable
        THEN Orderings({n \in EntryNames : entry[n] # "none"})
        ELSE { << >> }

ishidden(name) == Len(name) > 0 /\ SubSeq(name, 1, 1) = "."

\* glob.glob(f"{BASEPATH}/*") over a directory listing: "*" matches every
\* name that does not begin with a dot, files and directories alike; a
\* directory that does not exist matches nothing.
glob_star(dirname, listing) ==
    LET visible == SelectSeq(listing, LAMBDA n : ~ishidden(n))
    IN  [i \in 1..Len(visible) |-> dirname \o "/" \o visible[i]]

(***************************************************************************)
(* Logging and exceptions.                                                 *)
(***************************************************************************)
LogInfo(msg) == [level |-> "INFO", message |-> msg]

LogError(msg) == [level |-> "ERROR", message |-> msg]

Raise(type, msg) == [raised |-> TRUE, exc |-> [type |-> type, message |-> msg]]

Return(v) == [raised |-> FALSE, value |-> v]

\* pd.read_csv(filepath_or_buffer=filename, parse_dates=[1]): opening a
\* path that is absent raises FileNotFoundError, one below a regular file
\* NotADirectoryError; bytes that are no delimited table raise ParserError.
read_csv(filename) ==
    IF filename \in DOMAIN files THEN
        IF IsUnparsable(files[filename])
            THEN Raise("ParserError", "Error tokenizing data")
            ELSE Return(files[filename])
    ELSE IF \E n \in EntryNames : entry[n] = "file" /\ IsPrefix(EntryDir(n) \o "/", filename)
        THEN Raise("NotADirectoryError", "[Errno 20] Not a directory: '" \o filename \o "'")
    ELSE Raise("FileNotFoundError",
               "[Errno 2] No such file or directory: '" \o filename \o "'")

(***************************************************************************)
(* get_catalog, get_sources, get_triggers.  Each gives what it returns or  *)
(* raises, and the lines it logs.                                          *)
(***************************************************************************)
\* A plausible slip: return an empty frame when the file is missing.
get_catalog_EmptyWhenMissing(triggerID) ==
    LET filename == CATALOG_FILENAME(BASEPATH, triggerID)
        l1 == << LogInfo("Reading from " \o filename) >>
    IN  IF ~isfile(filename)
        THEN [ result |-> Return([columns |-> << >>, dtypes |-> << >>, rows |-> << >>]),
               log |-> l1 \o << LogError(filename \o " does not exist") >> ]
        ELSE [ result |-> read_csv(filename), log |-> l1 ]

get_catalog(triggerID) ==
    LET filename == CATALOG_FILENAME(BASEPATH, triggerID)
        l1 == << LogInfo("Reading from " \o filename) >>
        l2 == IF ~isfile(filename)
                THEN l1 \o << LogError(filename \o " does not exist") >>
                ELSE l1
        df == read_csv(filename)
    IN  IF df.raised
        THEN [ result |-> df, log |-> l2 ]
        ELSE [ result |-> df,
               log |-> l2 \o << LogInfo("Read in file of "
                                        \o ToString(Len(df.value.rows)) \o " rows") >> ]

get_sources(triggerID) ==
    LET filename == SOURCE_FILENAME(BASEPATH, triggerID)
        l1 == << LogInfo("Reading from " \o filename) >>
        l2 == IF ~isfile(filename)
                THEN l1 \o << LogError(filename \o " does not exist") >>
                ELSE l1
    IN  [ result |-> read_csv(filename), log |-> l2 ]

\* A plausible slip: os.listdir(BASEPATH), which raises when BASEPATH is
\* missing, in place of glob.
get_triggers_Listdir(listing) ==
    IF ~baseExists
    THEN [ result |-> Raise("FileNotFoundError",
                            "[Errno 2] No such file or directory: '" \o BASEPATH \o "'"),
           log |-> << >> ]
    ELSE IF ~baseListable
    THEN [ result |-> Raise("PermissionError",
                            "[Errno 13] Permission denied: '" \o BASEPATH \o "'"),
           log |-> << >> ]
    ELSE LET dirs == glob_star(BASEPATH, listing)
             ids  == [i \in 1..Len(dirs) |-> basename(dirs[i])]
             hit(id) == isfile(CATALOG_FILENAME(BASEPATH, id))
         IN  [ result |-> Return(SelectSeq(ids, hit)),
               log |-> [i \in 1..Len(ids) |->
                           LogInfo("Scanning " \o ids[i] \o " for output")] ]

get_triggers(listing) ==
    LET possible_trigger_dirs == glob_star(BASEPATH, listing)
        ids == [i \in 1..Len(possible_trigger_dirs) |->
                   basename(possible_trigger_dirs[i])]
        hit(id) == isfile(CATALOG_FILENAME(BASEPATH, id))
    IN  [ result |-> Return(SelectSeq(ids, hit)),
          log |-> [i \in 1..Len(ids) |-> LogInfo("Scanning " \o ids[i] \o " for output")] ]

(***************************************************************************)
(* The wire format: DataFrame.to_json(index=False, orient='table') as the  *)
(* handlers call it, and pd.read_json(url, orient='table') as the landing  *)
(* page tells clients to decode it.                                        *)
(***************************************************************************)
\* to_json's date_unit is left at its default, 'ms': a timestamp is written
\* as ISO 8601 text with milliseconds.
NanosPerMilli == 1000000

ColumnSet(df) == { df.columns[i] : i \in 1..Len(df.columns) }

ColumnIndex(df, name) == CHOOSE i \in 1..Len(df.columns) : df.columns[i] = name

EncodeCell(type, v) ==
    IF type = "datetime"
        THEN [second |-> v.second, ms |-> v.ns \div NanosPerMilli]
        ELSE v

DecodeCell(type, w) ==
    IF type = "datetime"
        THEN [second |-> w.second, ns |-> w.ms * NanosPerMilli]
        ELSE w

\* index=False: no "index" field in the schema, no index key in the rows.
to_json(df) ==
    [ schema |-> [ fields |-> [i \in 1..Len(df.columns) |->
                                  [name |-> df.columns[i], type |-> df.dtypes[i]]] ],
      data   |-> [r \in 1..Len(df.rows) |->
                     [c \in ColumnSet(df) |->
                         EncodeCell(df.dtypes[ColumnIndex(df, c)],
                                    df.rows[r][ColumnIndex(df, c)])]] ]

read_json(doc) ==
    LET fields == doc.schema.fields
    IN  [ columns |-> [i \in 1..Len(fields) |-> fields[i].name],
          dtypes  |-> [i \in 1..Len(fields) |-> fields[i].type],
          rows    |-> [r \in 1..Len(doc.data) |->
                          [i \in 1..Len(fields) |->
                              DecodeCell(fields[i].type, doc.data[r][fields[i].name])]] ]

(***************************************************************************)
(* Responses.                                                              *)
(***************************************************************************)
NoRequest == [endpoint |-> "none", triggerID |-> "", plot_type |-> "", listing |-> << >>]

NoResponse == [status |-> 0, kind |-> "none", media_type |-> "", disposition |-> "", body |-> ""]

\* A handler that returns a str: FastAPI sends it as a JSON string, status 200.
ReturnStr(text) ==
    [status |-> 200, kind |-> "json_string", media_type |-> "application/json",
     disposition |-> "", body |-> text]

\* StreamingResponse(content, media_type, headers): status 200, the body is
\* the chunks that iterating content yields.
StreamingResponse(chunks, media_type, disposition) ==
    [status |-> 200, kind |-> "stream", media_type |-> media_type,
     disposition |-> disposition, body |-> chunks]

\* A StreamingResponse whose content cannot be iterated: the status line
\* has been sent when the iteration fails, and no body follows.
StreamingAborted(media_type, disposition) ==
    [status |-> 200, kind |-> "stream_aborted", media_type |-> media_type,
     disposition |-> disposition, body |-> << >>]

HTMLResponse(content, status_code) ==
    [status |-> status_code, kind |-> "html", media_type |-> "text/html",
     disposition |-> "", body |-> content]

\* FileResponse(path): status 200, the body is what the file holds.
FileResponse(path) ==
    [status |-> 200, kind |-> "file", media_type |-> "image/png",
     disposition |-> "", body |-> files[path]]

\* An exception no handler catches.
InternalServerError ==
    [status |-> 500, kind |-> "text", media_type |-> "text/plain",
     disposition |-> "", body |-> "Internal Server Error"]

(***************************************************************************)
(* The handlers: the response and the log lines of one request.            *)
(***************************************************************************)
\* Iterating the dict {"trigger_ids": trigger_ids} yields its keys.  A
\* Starlette that calls iter() on the content streams them; one that calls
\* next() on the content itself fails on the first chunk.
DictIterations == {"iter", "next"}

triggers_root(listing, iteration) ==
    LET got == get_triggers(listing)
        disposition == "attachment;filename=trigger_IDs.json"
    IN  IF got.result.raised
        THEN [ resp |-> ReturnStr("ERROR: " \o got.result.exc.message), log |-> got.log ]
        ELSE LET content == [trigger_ids |-> got.result.value]
                 keys == << "trigger_ids" >>
             IN  [ resp |-> IF iteration = "iter"
                              THEN StreamingResponse(
                                       SelectSeq(keys, LAMBDA k : k \in DOMAIN content),
                                       "application/json", disposition)
                              ELSE StreamingAborted("application/json", disposition),
                   log |-> got.log ]

trigger_table_root(listing) ==
    LET got == get_triggers(listing)
    IN  IF got.result.raised
        THEN [ resp |-> InternalServerError, log |-> got.log ]
        ELSE LET trigger_ids == got.result.value
                 n == Len(KNOWN_PLOT_TYPES)
                 head == << "TriggerID", "Catalog-URL", "Sources-URL" >>
                         \o [i \in 1..n |-> KNOWN_PLOT_TYPES[i] \o " URL"]
                 row(trigger_id) ==
                     [ trigger_id |-> trigger_id,
                       links |->
                         << [href |-> CATS(HOST, PORT, trigger_id), text |-> "Catalog"],
                            [href |-> SOURCES(HOST, PORT, trigger_id), text |-> "Sources"] >>
                         \o [i \in 1..n |->
                               [href |-> PLOTS(HOST, PORT, trigger_id, KNOWN_PLOT_TYPES[i]),
                                text |-> KNOWN_PLOT_TYPES[i] \o "_latest"]] ]
             IN  [ resp |-> HTMLResponse(
                               [ title |-> "RCET RTEQcorrscan triggers",
                                 head  |-> head,
                                 rows  |-> [i \in 1..Len(trigger_ids) |-> row(trigger_ids[i])] ],
                               200),
                   log |-> got.log ]

catalog_root(triggerID) ==
    LET got == get_catalog(triggerID)
    IN  IF got.result.raised
        THEN [ resp |-> ReturnStr("ERROR: " \o got.result.exc.message), log |-> got.log ]
        ELSE [ resp |-> StreamingResponse(
                            << to_json(got.result.value) >>, "text/json",
                            "attachment;filename=<" \o triggerID \o "_catalog.json"),
               log |-> got.log ]

sources_root(triggerID) ==
    LET got == get_sources(triggerID)
    IN  IF got.result.raised
        THEN [ resp |-> ReturnStr("ERROR: " \o got.result.exc.message), log |-> got.log ]
        ELSE [ resp |-> StreamingResponse(
                            << to_json(got.result.value) >>, "text/json",
                            "attachment;filename=<" \o triggerID \o "_source.json"),
               log |-> got.log ]

KnownPlotTypesPage(plot_type) ==
    HTMLResponse([ message |-> plot_type \o " is not a known plot format.",
                   known   |-> KNOWN_PLOT_TYPES ], 400)

UpperCaseLetters == "ABCDEFGHIJKLMNOPQRSTUVWXYZ"

LowerCaseLetters == "abcdefghijklmnopqrstuvwxyz"

LowerChar(c) ==
    IF \E i \in 1..Len(UpperCaseLetters) : SubSeq(UpperCaseLetters, i, i) = c
    THEN LET i == CHOOSE i \in 1..Len(UpperCaseLetters) : SubSeq(UpperCaseLetters, i, i) = c
         IN  SubSeq(LowerCaseLetters, i, i)
    ELSE c

RECURSIVE Lower(_)
Lower(str) ==
    IF Len(str) = 0 THEN ""
    ELSE LowerChar(SubSeq(str, 1, 1)) \o Lower(SubSeq(str, 2, Len(str)))

\* A plausible slip: the tokens compared without regard to case.
NotInKnownPlotTypes_IgnoreCase(plot_type) ==
    \A i \in 1..Len(KNOWN_PLOT_TYPES) : Lower(KNOWN_PLOT_TYPES[i]) # Lower(plot_type)

\* plot_type not in KNOWN_PLOT_TYPES
NotInKnownPlotTypes(plot_type) ==
    \A i \in 1..Len(KNOWN_PLOT_TYPES) : KNOWN_PLOT_TYPES[i] # plot_type

\* A plausible slip: the file looked up before the kind is checked.
plots_root_FileFirst(triggerID, plot_type) ==
    LET plotfile == PLOT_FILENAME(BASEPATH, triggerID, plot_type)
    IN  IF isfile(plotfile)
        THEN [ resp |-> FileResponse(plotfile), log |-> << >> ]
        ELSE IF NotInKnownPlotTypes(plot_type)
        THEN [ resp |-> KnownPlotTypesPage(plot_type),
               log  |-> << LogError(plot_type \o " not in known types.") >> ]
        ELSE [ resp |-> KnownPlotTypesPage(plot_type),
               log  |-> << LogError(plotfile \o " does not exist") >> ]

plots_root(triggerID, plot_type) ==
    IF NotInKnownPlotTypes(plot_type)
    THEN [ resp |-> KnownPlotTypesPage(plot_type),
           log  |-> << LogError(plot_type \o " not in known types.") >> ]
    ELSE LET plotfile == PLOT_FILENAME(BASEPATH, triggerID, plot_type)
         IN  IF ~isfile(plotfile)
             THEN [ resp |-> KnownPlotTypesPage(plot_type),
                    log  |-> << LogError(plotfile \o " does not exist") >> ]
             ELSE [ resp |-> FileResponse(plotfile), log |-> << >> ]

(***************************************************************************)
(* Actions: the requests.  A request is served in one step on the tree as  *)
(* it is, and its response is delivered before anything else happens.      *)
(***************************************************************************)
Idle == req = NoRequest

Served(endpoint, triggerID, plot_type, listing, handled) ==
    /\ req' = [endpoint |-> endpoint, triggerID |-> triggerID,
               plot_type |-> plot_type, listing |-> listing]
    /\ resp' = handled.resp
    /\ log' = handled.log
    /\ UNCHANGED tree

GetTriggers ==
    /\ Idle
    /\ \E listing \in Listings, iteration \in DictIterations :
        Served("/triggers/", "", "", listing, triggers_root(listing, iteration))

GetTriggerTable ==
    /\ Idle
    /\ \E listing \in Listings :
        Served("/trigger_table/", "", "", listing, trigger_table_root(listing))

GetCatalog ==
    /\ Idle
    /\ \E triggerID \in TriggerIDInputs :
        Served("/catalog/", triggerID, "", << >>, catalog_root(triggerID))

GetSources ==
    /\ Idle
    /\ \E triggerID \in TriggerIDInputs :
        Served("/sources/", triggerID, "", << >>, sources_root(triggerID))

GetPlots ==
    /\ Idle
    /\ \E triggerID \in TriggerIDInputs, plot_type \in PlotTypeInputs :
        Served("/plots/", triggerID, plot_type, << >>, plots_root(triggerID, plot_type))

Deliver ==
    /\ req # NoRequest
    /\ req' = NoRequest
    /\ resp' = NoResponse
    /\ log' = << >>
    /\ UNCHANGED tree

(***************************************************************************)
(* Actions: the pipeline (and whoever else owns the tree) changes it.      *)
(***************************************************************************)
Changed == UNCHANGED <<req, resp, log>>

MakeBase ==
    /\ Idle
    /\ ~baseExists
    /\ baseExists' = TRUE
    /\ baseListable' = TRUE
    /\ UNCHANGED <<entry, files>>
    /\ Changed

RemoveBase ==
    /\ Idle
    /\ baseExists
    /\ baseExists' = FALSE
    /\ baseListable' = FALSE
    /\ entry' = [n \in EntryNames |-> "none"]
    /\ files' = NoFiles
    /\ Changed

\* The read permission of BASEPATH is taken away or given back; its search
\* permission stays, so the files below it can still be opened.
ChmodBase ==
    /\ Idle
    /\ baseExists
    /\ baseListable' = ~baseListable
    /\ UNCHANGED <<baseExists, entry, files>>
    /\ Changed

MakeEntry ==
    /\ Idle
    /\ \E n \in EntryNames, kind \in {"dir", "file"} :
        /\ baseExists
        /\ entry[n] = "none"
        /\ kind = "file" => FileCount < MaxFiles
        /\ entry' = [entry EXCEPT ![n] = kind]
        /\ UNCHANGED <<baseExists, baseListable, files>>
        /\ Changed

RemoveEntry ==
    /\ Idle
    /\ \E n \in EntryNames :
        /\ entry[n] # "none"
        /\ entry' = [entry EXCEPT ![n] = "none"]
        /\ files' = DropFiles(LayoutPaths(n))
        /\ UNCHANGED <<baseExists, baseListable>>
        /\ Changed

WriteCsv ==
    /\ Idle
    /\ \E n \in EntryNames, content \in CsvContents :
      \E path \in {LayoutCatalog(n), LayoutSources(n)} :
        /\ entry[n] = "dir"
        /\ path \in DOMAIN files \/ FileCount < MaxFiles
        /\ path \in DOMAIN files => files[path] # content
        /\ files' = WriteFile(path, content)
        /\ UNCHANGED <<baseExists, baseListable, entry>>
        /\ Changed

WritePlot ==
    /\ Idle
    /\ \E n \in EntryNames, stem \in PlotTypesOnDisk :
        /\ entry[n] = "dir"
        /\ LayoutPlot(n, stem) \notin DOMAIN files
        /\ FileCount < MaxFiles
        /\ files' = WriteFile(LayoutPlot(n, stem), PngBytes(LayoutPlot(n, stem)))
        /\ UNCHANGED <<baseExists, baseListable, entry>>
        /\ Changed

RemoveFile ==
    /\ Idle
    /\ \E path \in DOMAIN files :
        /\ files' = DropFiles({path})
        /\ UNCHANGED <<baseExists, baseListable, entry>>
        /\ Changed

Init ==
    /\ baseExists = FALSE
    /\ baseListable = FALSE
    /\ entry = [n \in EntryNames |-> "none"]
    /\ files = NoFiles
    /\ req = NoRequest
    /\ resp = NoResponse
    /\ log = << >>

Next ==
    \/ GetTriggers
    \/ GetTriggerTable
    \/ GetCatalog
    \/ GetSources
    \/ GetPlots
    \/ Deliver
    \/ MakeBase
    \/ RemoveBase
    \/ ChmodBase
    \/ MakeEntry
    \/ RemoveEntry
    \/ WriteCsv
    \/ WritePlot
    \/ RemoveFile

Spec == Init /\ [][Next]_vars

(***************************************************************************)
(* Properties.                                                             *)
(***************************************************************************)
Range(seq) == { seq[i] : i \in 1..Len(seq) }

\* The 8 plot kinds of the specification, written out.
EightKinds ==
    { "Scaled_Magnitude_Comparison", "Aftershock_extent_depth_map", "catalog_RT",
      "catalog_templates", "confidence_ellipsoid", "confidence_ellipsoid_vertical",
      "focal_sphere", "Geometry_with_time" }

\* The names under BASEPATH whose catalog file exists.
NamesWithCatalog ==
    { n \in EntryNames : baseExists /\ entry[n] = "dir" /\ LayoutCatalog(n) \in DOMAIN files }

\* The TriggerIDs of the rows of a trigger table page, in row order.
RowIds(page) == [i \in 1..Len(page.rows) |-> page.rows[i].trigger_id]

\* C1: in every state of the tree under a base directory that can be
\* listed, get_triggers() returns exactly the names of the entries under
\* BASEPATH (dot names included) whose catalog file exists, and a scan
\* served by /trigger_table/ shows that set for the tree as it is at the
\* request.
C1_ScanIsExactlyTheCatalogued ==
    (baseExists /\ baseListable) =>
        /\ \A listing \in Listings :
              /\ ~get_triggers(listing).result.raised
              /\ Range(get_triggers(listing).result.value) = NamesWithCatalog
        /\ req.endpoint = "/trigger_table/" =>
              Range(RowIds(resp.body)) = NamesWithCatalog

\* What holds of the scan in place of C1: the catalogued names that do not
\* begin with a dot, each once, when BASEPATH can be listed.
ScanIsTheCataloguedWithoutDot ==
    \A listing \in Listings :
        LET ids == get_triggers(listing).result.value
        IN  /\ Range(ids) = { n \in NamesWithCatalog :
                                baseListable /\ SubSeq(n, 1, 1) # "." }
            /\ \A i, j \in 1..Len(ids) : ids[i] = ids[j] => i = j

\* C2: a /catalog/ request for a triggerID whose catalog file does not exist
\* ends in an error that names the missing file (in the body and in the
\* log), never in a table response.
C2_MissingCatalogIsError ==
    (req.endpoint = "/catalog/" /\ LayoutCatalog(req.triggerID) \notin DOMAIN files) =>
        LET filename == LayoutCatalog(req.triggerID)
        IN  /\ resp.kind = "json_string"
            /\ resp.body \in
                 { "ERROR: [Errno 2] No such file or directory: '" \o filename \o "'",
                   "ERROR: [Errno 20] Not a directory: '" \o filename \o "'" }
            /\ LogError(filename \o " does not exist") \in Range(log)

C2_Witness ==
    /\ req.endpoint = "/catalog/"
    /\ req.triggerID = "empty_dir"
    /\ entry["empty_dir"] = "dir"
    /\ LayoutCatalog("empty_dir") \notin DOMAIN files
    /\ LayoutSources("empty_dir") \in DOMAIN files
    /\ resp.kind = "json_string"

RECURSIVE ConcatChunks(_)
ConcatChunks(chunks) ==
    IF chunks = << >> THEN "" ELSE Head(chunks) \o ConcatChunks(Tail(chunks))

\* json.dumps of a list of strings.
RECURSIVE JsonItems(_)
JsonItems(ids) ==
    IF ids = << >> THEN ""
    ELSE IF Len(ids) = 1 THEN "\"" \o ids[1] \o "\""
    ELSE "\"" \o ids[1] \o "\", " \o JsonItems(Tail(ids))

JsonArray(ids) == "[" \o JsonItems(ids) \o "]"

\* C3: the body of a /triggers/ response is the JSON array of the
\* TriggerIDs get_triggers() returned for the tree as it is.
C3_TriggersBodyIsTheIdArray ==
    req.endpoint = "/triggers/" =>
        /\ resp.kind = "stream"
        /\ ConcatChunks(resp.body) = JsonArray(get_triggers(req.listing).result.value)

\* C4: /plots/ with a plot_type that is none of the 8 kinds answers with a
\* 4xx status and a body that lists the 8 kinds, whatever files exist.
C4_UnknownKindIs4xxListingKinds ==
    (req.endpoint = "/plots/" /\ req.plot_type \notin EightKinds) =>
        /\ resp.status \in 400..499
        /\ resp.kind = "html"
        /\ Range(resp.body.known) = EightKinds

\* An unknown kind asked for while a file of that name is on disk.
C4_Witness ==
    /\ req.endpoint = "/plots/"
    /\ req.plot_type = "Focal_Sphere"
    /\ LayoutPlot(req.triggerID, "Focal_Sphere") \in DOMAIN files
    /\ resp.status = 400

\* C5: /plots/ with one of the 8 kinds returns the content of
\* {base}/{id}/{id}/plotter_out/{kind}_latest.png iff that file exists;
\* otherwise a 4xx response that lists the kinds, and no file content.
C5_KnownKindServesTheFileIffItExists ==
    (req.endpoint = "/plots/" /\ req.plot_type \in EightKinds) =>
        LET plotfile == LayoutPlot(req.triggerID, req.plot_type)
        IN  IF plotfile \in DOMAIN files
            THEN /\ resp.status = 200
                 /\ resp.kind = "file"
                 /\ resp.body = files[plotfile]
            ELSE /\ resp.status \in 400..499
                 /\ resp.kind = "html"
                 /\ Range(resp.body.known) = EightKinds

\* A plot served while the same trigger also holds a file of another stem.
C5_Witness ==
    /\ req.endpoint = "/plots/"
    /\ req.plot_type = "focal_sphere"
    /\ LayoutPlot(req.triggerID, "focal_sphere") \in DOMAIN files
    /\ LayoutPlot(req.triggerID, "Focal_Sphere") \in DOMAIN files
    /\ resp.kind = "file"

\* The file a /catalog/ or /sources/ request reads.
CsvPathOf(r) ==
    IF r.endpoint = "/catalog/" THEN LayoutCatalog(r.triggerID) ELSE LayoutSources(r.triggerID)

\* C6: a missing file on /catalog/, /sources/ or /plots/ and an unknown
\* plot kind get status 404, an unparsable file a 5xx status, and no
\* failure is answered with status 200 and an error string.
C6_FailuresGetErrorStatus ==
    /\ (req.endpoint \in {"/catalog/", "/sources/"} /\ CsvPathOf(req) \notin DOMAIN files) =>
          resp.status = 404
    /\ (req.endpoint \in {"/catalog/", "/sources/"} /\ CsvPathOf(req) \in DOMAIN files
          /\ IsUnparsable(files[CsvPathOf(req)])) =>
          resp.status \in 500..599
    /\ (req.endpoint = "/plots/"
          /\ (req.plot_type \notin EightKinds
              \/ LayoutPlot(req.triggerID, req.plot_type) \notin DOMAIN files)) =>
          resp.status = 404
    /\ resp.kind = "json_string" => resp.status # 200

\* C7: the membership test of /plots/ rejects a token (logging "<token> not
\* in known types.") iff the token is not, character for character, one of
\* the 8 kinds; a rejected token is never served a file.
C7_MembershipIsExact ==
    req.endpoint = "/plots/" =>
        /\ LogError(req.plot_type \o " not in known types.") \in Range(log)
              <=> req.plot_type \notin EightKinds
        /\ req.plot_type \notin EightKinds => resp.kind # "file"

\* A case variant of a known kind, rejected.
C7_Witness ==
    /\ req.endpoint = "/plots/"
    /\ req.plot_type = "GEOMETRY_WITH_TIME"
    /\ LogError("GEOMETRY_WITH_TIME not in known types.") \in Range(log)

\* C8: the wire format of /catalog/ and /sources/ lists the table's columns
\* in order with no index column, holds one record per row in row order,
\* and decodes to a table equal to the one loaded.
C8_WireFormatRoundTrips ==
    (req.endpoint \in {"/catalog/", "/sources/"} /\ resp.kind = "stream") =>
        LET df  == files[CsvPathOf(req)]
            doc == resp.body[1]
        IN  /\ [i \in 1..Len(doc.schema.fields) |-> doc.schema.fields[i].name] = df.columns
            /\ Len(doc.data) = Len(df.rows)
            /\ \A r \in 1..Len(doc.data) : DOMAIN doc.data[r] = Range(df.columns)
            /\ read_json(doc) = df

\* What holds of the wire format in place of C8: columns, their order, the
\* rows and their order; values up to the millisecond of a timestamp.
WireFormatKeepsShape ==
    (req.endpoint \in {"/catalog/", "/sources/"} /\ resp.kind = "stream") =>
        LET df  == files[CsvPathOf(req)]
            doc == resp.body[1]
            back == read_json(doc)
        IN  /\ back.columns = df.columns
            /\ back.dtypes = df.dtypes
            /\ Len(back.rows) = Len(df.rows)
            /\ \A r \in 1..Len(df.rows), i \in 1..Len(df.columns) :
                  IF df.dtypes[i] = "datetime"
                  THEN /\ back.rows[r][i].second = df.rows[r][i].second
                       /\ back.rows[r][i].ns =
                            df.rows[r][i].ns - (df.rows[r][i].ns % NanosPerMilli)
                  ELSE back.rows[r][i] = df.rows[r][i]

\* C9: with BASEPATH missing or not listable, get_triggers() returns the
\* empty list and raises nothing, and /triggers/ and /trigger_table/ answer
\* as for a tree with no trigger: status 200, no error string, no row.
C9_MissingBaseScansEmpty ==
    (~baseExists \/ ~baseListable) =>
        /\ \A listing \in Listings : get_triggers(listing).result = Return(<< >>)
        /\ req.endpoint = "/triggers/" =>
              /\ resp.status = 200
              /\ resp.kind \in {"stream", "stream_aborted"}
        /\ req.endpoint = "/trigger_table/" =>
              /\ resp.status = 200
              /\ resp.kind = "html"
              /\ resp.body.rows = << >>

\* A scan of a BASEPATH that holds a catalogued trigger and cannot be listed.
C9_Witness ==
    /\ baseExists
    /\ ~baseListable
    /\ NamesWithCatalog # {}
    /\ req.endpoint = "/trigger_table/"
    /\ resp.status = 200

\* Where main() makes the service listen.
ListenOrigin == "http://" \o UVICORN_HOST \o ":" \o ToString(UVICORN_PORT)

LinksFor(origin, id) ==
    << origin \o "/catalog/?triggerID=" \o id,
       origin \o "/sources/?triggerID=" \o id >>
    \o [i \in 1..8 |->
           origin \o "/plots/?triggerID=" \o id \o "&plot_type=" \o KNOWN_PLOT_TYPES[i]]

\* C10: /trigger_table/ shows one row per TriggerID of the scan, in scan
\* order, each with its 10 links (catalog, sources, the 8 plot kinds in
\* registry order) that address this service's host and port.
C10_TableLinksReachTheService ==
    req.endpoint = "/trigger_table/" =>
        LET ids == get_triggers(req.listing).result.value
        IN  /\ RowIds(resp.body) = ids
            /\ \A i \in 1..Len(ids) :
                  [k \in 1..Len(resp.body.rows[i].links) |-> resp.body.rows[i].links[k].href]
                      = LinksFor(ListenOrigin, ids[i])

\* What holds of the table in place of C10: the same rows and links, at the
\* origin the module constants HOST and PORT name.
TableLinksUseHostAndPort ==
    req.endpoint = "/trigger_table/" =>
        LET ids == get_triggers(req.listing).result.value
        IN  /\ RowIds(resp.body) = ids
            /\ \A i \in 1..Len(ids) :
                  [k \in 1..Len(resp.body.rows[i].links) |-> resp.body.rows[i].links[k].href]
                      = LinksFor("http://0.0.0.0:8000", ids[i])

====
